---------------------------- MODULE Spec2Model ----------------------------
(***************************************************************************)
(* A model of src/main.py of the learning platform: the response           *)
(* sanitizer (clean_ai_response), the proxy client (create_chat_session,   *)
(* converse_with_knowledge_base), the in-memory knowledge-base store and   *)
(* the request handlers that bind them.                                    *)
(*                                                                         *)
(* Text is a sequence of characters, each character a one-character        *)
(* string.  A character outside ASCII is written by its code point         *)
(* ("U+2022" is the bullet glyph).                                         *)
(***************************************************************************)
EXTENDS Integers, Sequences, FiniteSets, TLC

(***************************************************************************)
(* Characters and character classes of Python's re module.                 *)
(***************************************************************************)
NL == "\n"

\* \s and str.strip(): the whitespace characters
WS == {" ", "\t", "\n", "\r", "\f"}

\* \d
Digits == {"0", "1", "2", "3", "4", "5", "6", "7", "8", "9"}

HexDigits == Digits \cup {"a", "b", "c", "d", "e", "f"}

Min(S) == CHOOSE x \in S : \A y \in S : x <= y

Max(S) == CHOOSE x \in S : \A y \in S : x >= y

\* s[from..], and s[a..b] (empty when b < a)
Slice(s, a, b) == IF b < a THEN <<>> ELSE SubSeq(s, a, b)

\* the literal lit occurs in s at index i
LitAt(s, i, lit) ==
    /\ i >= 1
    /\ i + Len(lit) - 1 <= Len(s)
    /\ \A k \in 1..Len(lit) : s[i + k - 1] = lit[k]

\* index of the last character of the longest run of characters of C that
\* starts at i (i - 1 when s[i] is not in C): a greedy C*
RunEnd(s, i, C) ==
    LET stops == {j \in i..Len(s) : s[j] \notin C}
    IN  IF stops = {} THEN Len(s) ELSE Min(stops) - 1

\* a lazy (.*?)lit from index from: the first index j >= from where lit
\* occurs with no character of stop in s[from..j-1]; 0 when there is none
LazyFind(s, from, lit, stop) ==
    LET limit == RunEnd(s, from, {s[k] : k \in 1..Len(s)} \ stop) + 1
        hits  == {j \in from..limit : LitAt(s, j, lit)}
    IN  IF hits = {} THEN 0 ELSE Min(hits)

\* ^ under re.MULTILINE
LineStart(s, i) == i = 1 \/ s[i - 1] = NL

(***************************************************************************)
(* re.sub(pattern, repl, s): scan from the left; copy up to the first      *)
(* index m >= i where the pattern matches (mEnd[m] is the index after the  *)
(* match, 0 for no match), emit the replacement and go on after the match. *)
(* No pattern of clean_ai_response matches the empty string.               *)
(***************************************************************************)
RECURSIVE SubFrom(_, _, _, _)
SubFrom(s, i, mEnd, repl) ==
    LET starts == {j \in i..Len(s) : mEnd[j] > 0}
    IN  IF starts = {} THEN Slice(s, i, Len(s))
        ELSE LET m == Min(starts)
             IN  Slice(s, i, m - 1) \o repl[m] \o SubFrom(s, mEnd[m], mEnd, repl)

ReSub(s, mEnd, repl) == SubFrom(s, 1, mEnd, repl)

Idx(s) == 1..Len(s)

STRONG_OPEN == <<"<", "s", "t", "r", "o", "n", "g", ">">>

STRONG_CLOSE == <<"<", "/", "s", "t", "r", "o", "n", "g", ">">>

EM_OPEN == <<"<", "e", "m", ">">>

EM_CLOSE == <<"<", "/", "e", "m", ">">>

BULLET == "U+2022"

BACKTICK == "U+0060"

\* re.sub(r'\n\s*\n', '\n\n', text)
CollapseBlankLines(s) ==
    LET e == [i \in Idx(s) |->
                IF s[i] # NL THEN 0
                ELSE LET nls == {j \in (i + 1)..RunEnd(s, i + 1, WS) : s[j] = NL}
                     IN  IF nls = {} THEN 0 ELSE Max(nls) + 1]
    IN  ReSub(s, e, [i \in Idx(s) |-> <<NL, NL>>])

\* re.sub(r'[ \t]+', ' ', text)
CollapseHorizontal(s) ==
    LET e == [i \in Idx(s) |->
                IF s[i] \in {" ", "\t"} THEN RunEnd(s, i, {" ", "\t"}) + 1 ELSE 0]
    IN  ReSub(s, e, [i \in Idx(s) |-> <<" ">>])

\* re.sub(open + r'(.*?)' + close, pre + r'\1' + post, text), with . not
\* matching a line break unless dotall
Delimited(s, open, close, pre, post, keep, dotall) ==
    LET stop == IF dotall THEN {} ELSE {NL}
        c == [i \in Idx(s) |->
                IF LitAt(s, i, open)
                THEN LazyFind(s, i + Len(open), close, stop) ELSE 0]
        e == [i \in Idx(s) |-> IF c[i] > 0 THEN c[i] + Len(close) ELSE 0]
        r == [i \in Idx(s) |->
                IF c[i] > 0
                THEN pre \o (IF keep THEN Slice(s, i + Len(open), c[i] - 1) ELSE <<>>)
                         \o post
                ELSE <<>>]
    IN  ReSub(s, e, r)

\* re.sub(r'\*\*(.*?)\*\*', r'<strong>\1</strong>', text)
Bold(s) == Delimited(s, <<"*", "*">>, <<"*", "*">>, STRONG_OPEN, STRONG_CLOSE, TRUE, FALSE)

\* re.sub(r'\*(.*?)\*', r'<em>\1</em>', text)
Emphasis(s) == Delimited(s, <<"*">>, <<"*">>, EM_OPEN, EM_CLOSE, TRUE, FALSE)

\* a citation marker [ID:<digits>] starts at i: the index after it, else 0
CitationEnd(s, i) ==
    IF ~LitAt(s, i, <<"[", "I", "D", ":">>) THEN 0
    ELSE LET d == RunEnd(s, i + 4, Digits)
         IN  IF d >= i + 4 /\ LitAt(s, d + 1, <<"]">>) THEN d + 2 ELSE 0

\* re.sub(r'\[ID:\d+\]', '', text)
StripCitations(s) ==
    ReSub(s, [i \in Idx(s) |-> CitationEnd(s, i)], [i \in Idx(s) |-> <<>>])

\* re.sub(r'^[\-\*<bullet>]\s+', '<bullet> ', text, flags=re.MULTILINE)
Bullets(s) ==
    LET e == [i \in Idx(s) |->
                IF LineStart(s, i) /\ s[i] \in {"-", "*", BULLET}
                   /\ RunEnd(s, i + 1, WS) >= i + 1
                THEN RunEnd(s, i + 1, WS) + 1 ELSE 0]
    IN  ReSub(s, e, [i \in Idx(s) |-> <<BULLET, " ">>])

\* re.sub(r'^\d+\.\s+', '', text, flags=re.MULTILINE)
Ordinals(s) ==
    LET e == [i \in Idx(s) |->
                IF ~(LineStart(s, i) /\ s[i] \in Digits) THEN 0
                ELSE LET d == RunEnd(s, i, Digits)
                         w == RunEnd(s, d + 2, WS)
                     IN  IF LitAt(s, d + 1, <<".">>) /\ w >= d + 2 THEN w + 1 ELSE 0]
    IN  ReSub(s, e, [i \in Idx(s) |-> <<>>])

\* re.sub(r'^#+\s+(.*)$', r'<strong>\1</strong>', text, flags=re.MULTILINE)
Headings(s) ==
    LET h == [i \in Idx(s) |-> RunEnd(s, i, {"#"})]
        w == [i \in Idx(s) |-> RunEnd(s, h[i] + 1, WS)]
        t == [i \in Idx(s) |-> RunEnd(s, w[i] + 1, {s[k] : k \in Idx(s)} \ {NL})]
        m == [i \in Idx(s) |-> LineStart(s, i) /\ s[i] = "#" /\ w[i] >= h[i] + 1]
    IN  ReSub(s, [i \in Idx(s) |-> IF m[i] THEN t[i] + 1 ELSE 0],
              [i \in Idx(s) |-> STRONG_OPEN \o Slice(s, w[i] + 1, t[i]) \o STRONG_CLOSE])

\* re.sub(r'<backtick>(.*?)<backtick>', r'\1', text)
InlineCode(s) == Delimited(s, <<BACKTICK>>, <<BACKTICK>>, <<>>, <<>>, TRUE, FALSE)

\* re.sub(r'\[(.*?)\]\(.*?\)', r'\1', text): the label ends at the first "]("
\* on the line that a ")" follows on its line
Links(s) ==
    LET close(j) == LazyFind(s, j + 2, <<")">>, {NL})
        mid == [i \in Idx(s) |->
                  IF s[i] # "[" THEN 0
                  ELSE LET lim == RunEnd(s, i + 1, {s[k] : k \in Idx(s)} \ {NL}) + 1
                           js  == {j \in (i + 1)..lim :
                                     LitAt(s, j, <<"]", "(">>) /\ close(j) > 0}
                       IN  IF js = {} THEN 0 ELSE Min(js)]
    IN  ReSub(s, [i \in Idx(s) |-> IF mid[i] > 0 THEN close(mid[i]) + 1 ELSE 0],
              [i \in Idx(s) |-> Slice(s, i + 1, mid[i] - 1)])

\* re.sub(r'\"(.*?)\"', r'"\1"', text)
Quotes(s) == Delimited(s, <<"\"">>, <<"\"">>, <<"\"">>, <<"\"">>, TRUE, FALSE)

PLAINTEXT_OPEN == <<"p", "l", "a", "i", "n", "t", "e", "x", "t", "\n", "[">>

\* re.sub(r'plaintext\n\[.*?\]', '', text, flags=re.DOTALL)
PlaintextBlocks(s) == Delimited(s, PLAINTEXT_OPEN, <<"]">>, <<>>, <<>>, FALSE, TRUE)

\* the alternatives of the emoji pattern, in the pattern's order
EMOJI == << <<"U+2705">>, <<"U+274C">>, <<"U+26A0", "U+FE0F">>, <<"U+1F512">>,
            <<"U+1F4DC">>, <<"U+270D", "U+FE0F">>, <<"U+1F511">>,
            <<"U+1F5DD", "U+FE0F">>, <<"U+2696", "U+FE0F">>, <<"U+1F33F">>,
            <<"U+1F64F">> >>

\* re.sub(r'(<emoji>|...)\s+', '', text)
Emojis(s) ==
    LET e == [i \in Idx(s) |->
                LET alts == {a \in 1..Len(EMOJI) :
                               /\ LitAt(s, i, EMOJI[a])
                               /\ RunEnd(s, i + Len(EMOJI[a]), WS) >= i + Len(EMOJI[a])}
                IN  IF alts = {} THEN 0
                    ELSE RunEnd(s, i + Len(EMOJI[Min(alts)]), WS) + 1]
    IN  ReSub(s, e, [i \in Idx(s) |-> <<>>])

\* re.sub(r'<backtick>.*?<backtick>', '', text, flags=re.DOTALL)
CodeSpans(s) == Delimited(s, <<BACKTICK>>, <<BACKTICK>>, <<>>, <<>>, FALSE, TRUE)

TRUST_STRUCTURE == <<"[", "T", "r", "u", "s", "t", " ", "S", "t", "r", "u", "c",
                     "t", "u", "r", "e", "]">>

\* re.sub(r'\[Trust Structure\]', '', text)
TrustStructure(s) ==
    ReSub(s, [i \in Idx(s) |-> IF LitAt(s, i, TRUST_STRUCTURE) THEN i + 17 ELSE 0],
          [i \in Idx(s) |-> <<>>])

\* re.sub(r'>\s*"(.*?)"', r'"\1"', text)
BlockQuotes(s) ==
    LET w == [i \in Idx(s) |-> RunEnd(s, i + 1, WS)]
        q == [i \in Idx(s) |->
                IF s[i] = ">" /\ LitAt(s, w[i] + 1, <<"\"">>)
                THEN LazyFind(s, w[i] + 2, <<"\"">>, {NL}) ELSE 0]
    IN  ReSub(s, [i \in Idx(s) |-> IF q[i] > 0 THEN q[i] + 1 ELSE 0],
              [i \in Idx(s) |-> <<"\"">> \o Slice(s, w[i] + 2, q[i] - 1) \o <<"\"">>])

PER_UCC == <<"p", "e", "r", " ", "U", "C", "C", " ">>

\* re.sub(r'per UCC \d+-\d+', '', text)
UccReferences(s) ==
    LET e == [i \in Idx(s) |->
                IF ~LitAt(s, i, PER_UCC) THEN 0
                ELSE LET a == RunEnd(s, i + 8, Digits)
                         b == RunEnd(s, a + 2, Digits)
                     IN  IF a >= i + 8 /\ LitAt(s, a + 1, <<"-">>) /\ b >= a + 2
                         THEN b + 1 ELSE 0]
    IN  ReSub(s, e, [i \in Idx(s) |-> <<>>])

\* str.strip()
Strip(s) ==
    LET ink == {i \in Idx(s) : s[i] \notin WS}
    IN  IF ink = {} THEN <<>> ELSE SubSeq(s, Min(ink), Max(ink))

\* text.split('\n\n')
RECURSIVE SplitParagraphs(_)
SplitParagraphs(s) ==
    LET at == {j \in Idx(s) : LitAt(s, j, <<NL, NL>>)}
    IN  IF at = {} THEN <<s>>
        ELSE <<Slice(s, 1, Min(at) - 1)>>
                 \o SplitParagraphs(Slice(s, Min(at) + 2, Len(s)))

\* '\n\n'.join(ps)
RECURSIVE JoinParagraphs(_)
JoinParagraphs(ps) ==
    IF ps = <<>> THEN <<>>
    ELSE IF Len(ps) = 1 THEN ps[1]
    ELSE ps[1] \o <<NL, NL>> \o JoinParagraphs(Tail(ps))

\* paragraphs = [p.strip() for p in text.split('\n\n') if p.strip()]
\* text = '\n\n'.join(paragraphs)
Paragraphs(s) ==
    JoinParagraphs(SelectSeq([k \in 1..Len(SplitParagraphs(s)) |->
                                 Strip(SplitParagraphs(s)[k])],
                             LAMBDA p : p # <<>>))

\* re.sub(r' +', ' ', text)
CollapseSpaces(s) ==
    LET e == [i \in Idx(s) |-> IF s[i] = " " THEN RunEnd(s, i, {" "}) + 1 ELSE 0]
    IN  ReSub(s, e, [i \in Idx(s) |-> <<" ">>])

\* clean_ai_response: the passes in the order of the source
clean_ai_response(text) ==
    IF text = <<>> THEN text
    ELSE
    LET t1  == CollapseBlankLines(text)
        t2  == CollapseHorizontal(t1)
        t3  == Bold(t2)
        t4  == Emphasis(t3)
        t5  == StripCitations(t4)
        t6  == Bullets(t5)
        t7  == Ordinals(t6)
        t8  == Headings(t7)
        t9  == InlineCode(t8)
        t10 == Links(t9)
        t11 == Quotes(t10)
        t12 == PlaintextBlocks(t11)
        t13 == Emojis(t12)
        t14 == CodeSpans(t13)
        t15 == TrustStructure(t14)
        t16 == BlockQuotes(t15)
        t17 == UccReferences(t16)
        t18 == Paragraphs(t17)
        t19 == Strip(t18)
    IN  CollapseSpaces(t19)

(***************************************************************************)
(* Python values that cross the proxy boundary.  A JSON object is a record *)
(* of the keys the code reads; a key the object does not hold is Absent.   *)
(***************************************************************************)
PyNone == [type |-> "none"]

Absent == [type |-> "absent"]

PyStr(s) == [type |-> "str", val |-> s]

\* a JSON value that is no object (an array, a number, a string): it has no get
PyList == [type |-> "list"]

\* dict.get(key, default), v the value under the key
Get(v, default) == IF v.type = "absent" THEN default ELSE v

\* truth value of a session id: None and "" are false
Truthy(v) == v.type = "str" /\ v.val # <<>>

Contains(s, lit) == \E i \in 1..(Len(s) + 1) : LitAt(s, i, lit)

UPPER == <<"A", "B", "C", "D", "E", "F", "G", "H", "I", "J", "K", "L", "M",
           "N", "O", "P", "Q", "R", "S", "T", "U", "V", "W", "X", "Y", "Z">>

LOWER == <<"a", "b", "c", "d", "e", "f", "g", "h", "i", "j", "k", "l", "m",
           "n", "o", "p", "q", "r", "s", "t", "u", "v", "w", "x", "y", "z">>

\* str.lower()
Lower(s) ==
    [i \in Idx(s) |->
        IF \E k \in 1..26 : UPPER[k] = s[i]
        THEN LOWER[CHOOSE k \in 1..26 : UPPER[k] = s[i]] ELSE s[i]]

\* str.replace(old, new), old not empty
Replace(s, old, new) ==
    ReSub(s, [i \in Idx(s) |-> IF LitAt(s, i, old) THEN i + Len(old) ELSE 0],
          [i \in Idx(s) |-> new])

(***************************************************************************)
(* create_chat_session.  The outcome of the POST to the sessions endpoint  *)
(* is [kind |-> "response", status, body], [kind |-> "timeout"] or         *)
(* [kind |-> "transport_error"]; body is what response.json() makes of the *)
(* payload: [type |-> "invalid"] (it raises), PyList, or a JSON object     *)
(* [type |-> "dict", session_id, others] (others: it holds other keys).    *)
(* hex stands for uuid.uuid4().hex[:8].                                    *)
(***************************************************************************)
SESSION_PREFIX == <<"s", "e", "s", "s", "i", "o", "n", "-">>

\* {"session_id": f"session-{uuid.uuid4().hex[:8]}"}
FallbackSession(hex) ==
    [type |-> "dict", session_id |-> PyStr(SESSION_PREFIX \o hex), others |-> FALSE]

create_chat_session(outcome, hex) ==
    IF outcome.kind # "response" THEN FallbackSession(hex)
    ELSE IF outcome.status \in {200, 201}
         THEN IF outcome.body.type = "dict"
              THEN outcome.body
              ELSE FallbackSession(hex)
         ELSE FallbackSession(hex)

\* truth value of the dict create_chat_session returns
SessionDataTruthy(d) == d.session_id.type # "absent" \/ d.others

\* if not session_id:
\*     session_data = await create_chat_session()
\*     if session_data: session_id = session_data.get("session_id")
NeedsSession(session_id) == ~Truthy(session_id)

ExtractSessionId(session_id, session_data) ==
    IF SessionDataTruthy(session_data)
    THEN Get(session_data.session_id, PyNone)
    ELSE session_id

(***************************************************************************)
(* converse_with_knowledge_base.  The outcome of the POST to the           *)
(* completions endpoint is [kind |-> "response", status, lines] (lines:    *)
(* response.text.split("\n")), a timeout or a transport error.  A line is  *)
(* [data, kind, text, js]: data says that it starts with "data: "; what    *)
(* follows the prefix is either text that json.loads rejects (kind "text", *)
(* the [DONE] sentinel among them) or the serialization of the JSON value  *)
(* js (kind "json").  A JSON object is [type |-> "dict", event, data], its *)
(* data an object [type |-> "dict", content], or no object.                *)
(***************************************************************************)
DONE == <<"[", "D", "O", "N", "E", "]">>

RAISED == [raised |-> TRUE, answer |-> <<>>]

IsSentinelNever(chunk) == FALSE

\* if chunk == "[DONE]": break
IsSentinel(chunk) == chunk = DONE

OnJSONDecodeErrorSkip(full_answer, chunk) == full_answer

\* except json.JSONDecodeError: full_answer += chunk + "\n"
OnJSONDecodeError(full_answer, chunk) == full_answer \o chunk \o <<NL>>

\* for line in lines: ... ; the result is full_answer, or the attribute or
\* type error that leaves the loop
RECURSIVE Accumulate(_, _, _)
Accumulate(lines, i, full_answer) ==
    IF i > Len(lines) THEN [raised |-> FALSE, answer |-> full_answer]
    ELSE LET line == lines[i] IN
    IF ~line.data THEN Accumulate(lines, i + 1, full_answer)
    ELSE IF line.kind = "text"
    THEN IF IsSentinel(Strip(line.text))
         THEN [raised |-> FALSE, answer |-> full_answer]
         ELSE Accumulate(lines, i + 1, OnJSONDecodeError(full_answer, Strip(line.text)))
    ELSE IF line.js.type # "dict" THEN RAISED
    ELSE IF Get(line.js.event, PyNone) = PyStr(<<"m", "e", "s", "s", "a", "g", "e">>)
    THEN LET data == Get(line.js.data, [type |-> "dict", content |-> Absent]) IN
         IF data.type # "dict" THEN RAISED
         ELSE LET content == Get(data.content, PyStr(<<>>)) IN
              IF content.type # "str" THEN RAISED
              ELSE Accumulate(lines, i + 1, full_answer \o content.val)
    ELSE IF Get(line.js.event, PyNone) = PyStr(<<"e", "r", "r", "o", "r">>)
    THEN IF Get(line.js.data, [type |-> "dict", content |-> Absent]).type # "dict"
         THEN RAISED
         ELSE Accumulate(lines, i + 1, full_answer)
    ELSE Accumulate(lines, i + 1, full_answer)

\* the answer buffer of a 200 response
ParseStream(lines) == Accumulate(lines, 1, <<>>)

IM_YOUR_ASSISTANT == <<"i", "'", "m", " ", "y", "o", "u", "r", " ", "a", "s", "s", "i", "s",
      "t", "a", "n", "t">>

\* f"As your {kb_name} assistant specializing in {kb_subject}, I understand
\* you're asking about: {question}. Based on the {kb_name} knowledge base
\* context, I can provide insights about {kb_subject}."
EnhancedResponse(question, kb_name, kb_subject) ==
    <<"A", "s", " ", "y", "o", "u", "r", " ">> \o kb_name
    \o <<" ", "a", "s", "s", "i", "s", "t", "a", "n", "t", " ", "s", "p", "e",
      "c", "i", "a", "l", "i", "z", "i", "n", "g", " ", "i", "n", " ">> \o kb_subject
    \o <<",", " ", "I", " ", "u", "n", "d", "e", "r", "s", "t", "a", "n", "d",
      " ", "y", "o", "u", "'", "r", "e", " ", "a", "s", "k", "i", "n", "g",
      " ", "a", "b", "o", "u", "t", ":", " ">> \o question
    \o <<".", " ", "B", "a", "s", "e", "d", " ", "o", "n", " ", "t", "h", "e",
      " ">> \o kb_name
    \o <<" ", "k", "n", "o", "w", "l", "e", "d", "g", "e", " ", "b", "a", "s",
      "e", " ", "c", "o", "n", "t", "e", "x", "t", ",", " ", "I", " ", "c",
      "a", "n", " ", "p", "r", "o", "v", "i", "d", "e", " ", "i", "n", "s",
      "i", "g", "h", "t", "s", " ", "a", "b", "o", "u", "t", " ">> \o kb_subject
    \o <<".">>

\* f"As your dedicated {kb_name} assistant for {kb_subject}, I'm analyzing
\* your question about '{question}'. This response is tailored to the
\* {kb_name} knowledge base context."
StatusFallback(question, kb_name, kb_subject) ==
    <<"A", "s", " ", "y", "o", "u", "r", " ", "d", "e", "d", "i", "c", "a",
      "t", "e", "d", " ">> \o kb_name
    \o <<" ", "a", "s", "s", "i", "s", "t", "a", "n", "t", " ", "f", "o", "r",
      " ">> \o kb_subject
    \o <<",", " ", "I", "'", "m", " ", "a", "n", "a", "l", "y", "z", "i", "n",
      "g", " ", "y", "o", "u", "r", " ", "q", "u", "e", "s", "t", "i", "o",
      "n", " ", "a", "b", "o", "u", "t", " ", "'">> \o question
    \o <<"'", ".", " ", "T", "h", "i", "s", " ", "r", "e", "s", "p", "o", "n",
      "s", "e", " ", "i", "s", " ", "t", "a", "i", "l", "o", "r", "e", "d",
      " ", "t", "o", " ", "t", "h", "e", " ">> \o kb_name
    \o <<" ", "k", "n", "o", "w", "l", "e", "d", "g", "e", " ", "b", "a", "s",
      "e", " ", "c", "o", "n", "t", "e", "x", "t", ".">>

\* f"I'm your {kb_name} AI assistant specializing in {kb_subject}. How can I
\* help you explore this topic further?"
ExceptionFallback(kb_name, kb_subject) ==
    <<"I", "'", "m", " ", "y", "o", "u", "r", " ">> \o kb_name
    \o <<" ", "A", "I", " ", "a", "s", "s", "i", "s", "t", "a", "n", "t", " ",
      "s", "p", "e", "c", "i", "a", "l", "i", "z", "i", "n", "g", " ", "i",
      "n", " ">> \o kb_subject
    \o <<".", " ", "H", "o", "w", " ", "c", "a", "n", " ", "I", " ", "h", "e",
      "l", "p", " ", "y", "o", "u", " ", "e", "x", "p", "l", "o", "r", "e",
      " ", "t", "h", "i", "s", " ", "t", "o", "p", "i", "c", " ", "f", "u",
      "r", "t", "h", "e", "r", "?">>

TooGenericIgnoresEmpty(cleaned_response) ==
    Contains(Lower(cleaned_response), IM_YOUR_ASSISTANT)

\* if not cleaned_response or "i'm your assistant" in cleaned_response.lower()
TooGeneric(cleaned_response) ==
    cleaned_response = <<>> \/ Contains(Lower(cleaned_response), IM_YOUR_ASSISTANT)

converse_with_knowledge_base(question, kb_name, kb_subject, outcome) ==
    IF outcome.kind # "response" THEN ExceptionFallback(kb_name, kb_subject)
    ELSE IF outcome.status # 200 THEN StatusFallback(question, kb_name, kb_subject)
    ELSE LET parsed == ParseStream(outcome.lines) IN
         IF parsed.raised THEN ExceptionFallback(kb_name, kb_subject)
         ELSE LET cleaned_response == clean_ai_response(Strip(parsed.answer)) IN
              IF TooGeneric(cleaned_response)
              THEN EnhancedResponse(question, kb_name, kb_subject)
              ELSE cleaned_response

(***************************************************************************)
(* State.  The process-wide registries, the uploads in flight and the last *)
(* response sent; and, for the two pure functions, an input and the result *)
(* of applying the function to it.                                         *)
(***************************************************************************)
VARIABLES
    user_knowledge_bases,  \* kb id -> [id, name, subject, file_count, files]
    user_files,            \* kb id -> the list of its file records
    lists,                 \* the list objects: a list is named by its index here
    uploads,               \* the upload requests suspended at an await
    uploaded,              \* history: kb id -> the filenames uploaded to it, in order
    request,               \* history: the request that the last response answers
    response,              \* the last response a handler returned
    proxy_calls,           \* the Proxy Client calls the last chat request made
    text,                  \* an input of clean_ai_response
    cleaned,               \* [passes, out, first]: the output after so many applications
    completion,            \* an outcome of the completions endpoint
    answer                 \* [returned, buffer, text]: the completion call's result on it

storeVars == <<user_knowledge_bases, user_files, lists, uploads, uploaded>>

handlerVars == <<request, response, proxy_calls>>

vars == <<user_knowledge_bases, user_files, lists, uploads, uploaded, request,
          response, proxy_calls, text, cleaned, completion, answer>>

\* bounds of the model
MaxKB == 1

MaxUploads == 2

MaxInflight == 2

MaxTokens == 4

MaxLines == 3

MaxTextLines == 4

\* str(uuid.uuid4()): one more identifier than knowledge bases can be created,
\* so that some identifier is always unknown
KbIds == 1..(MaxKB + 1)

FileNames == {"notes.txt", "herbs.pdf"}

\* len(content)
Sizes == {0, 12}

QUESTION == <<"h", "i">>

KB_NAME == <<"H", "e", "r", "b", "s">>

KB_SUBJECT == <<"p", "l", "a", "n", "t", "s">>

NoFragment == [class |-> "none", note |-> "", user |-> <<>>, title |-> <<>>, content |-> <<>>]

NoResponse ==
    [handler |-> "none", kind |-> "none", status |-> 0, success |-> FALSE,
     kb_id |-> 0, message |-> <<>>, fragment |-> NoFragment]

\* JSONResponse({"success": success, "message": message}, status_code=status)
JSONResponse(handler, status, success, kb_id, message) ==
    [handler |-> handler, kind |-> "json", status |-> status, success |-> success,
     kb_id |-> kb_id, message |-> message, fragment |-> NoFragment]

\* a handler that returns a string: an HTML fragment
HTMLFragment(handler, fragment) ==
    [handler |-> handler, kind |-> "html", status |-> 200, success |-> TRUE,
     kb_id |-> 0, message |-> <<>>, fragment |-> fragment]

\* an exception that leaves the handler
Unhandled(handler, exception) ==
    [handler |-> handler, kind |-> "exception", status |-> 500, success |-> FALSE,
     kb_id |-> 0, message |-> exception, fragment |-> NoFragment]

\* '<div class="message error">' + note + '</div>'
ErrorFragment(note) ==
    [class |-> "error", note |-> note, user |-> <<>>, title |-> <<>>, content |-> <<>>]

\* the user-message div with the message, then the ai-message div with the
\* title and '<p>' + formatted_response + '</p>'
ChatFragment(message, title, formatted_response) ==
    [class |-> "chat", note |-> "", user |-> message, title |-> title,
     content |-> <<"<", "p", ">">> \o formatted_response \o <<"<", "/", "p", ">">>]

IdleUpload == [pc |-> "idle", kb_id |-> 0, filename |-> "", size |-> 0]

\* known: the knowledge-base registry held kb_id when the request came
Request(handler, kb_id, known, message, session_id) ==
    [handler |-> handler, kb_id |-> kb_id, known |-> known, message |-> message,
     session_id |-> session_id]

NoRequest == Request("none", 0, FALSE, <<>>, PyNone)

NotCleaned == [passes |-> 0, out |-> <<>>, first |-> <<>>]

NoCompletion == [kind |-> "none"]

NoAnswer == [returned |-> FALSE, buffer |-> RAISED, text |-> <<>>]

\* user_knowledge_bases = {}, user_files = {}
StoreIdle ==
    /\ user_knowledge_bases = <<>>
    /\ user_files = <<>>
    /\ lists = <<>>
    /\ uploads = [t \in 1..MaxInflight |-> IdleUpload]
    /\ uploaded = [id \in KbIds |-> <<>>]
    /\ request = NoRequest
    /\ response = NoResponse
    /\ proxy_calls = <<>>

PureIdle ==
    /\ text = <<>>
    /\ cleaned = NotCleaned
    /\ completion = NoCompletion
    /\ answer = NoAnswer

\* all sequences over S of length at most n
SeqsUpTo(S, n) == UNION {[1..k -> S] : k \in 0..n}

RECURSIVE Flatten(_)
Flatten(ss) == IF ss = <<>> THEN <<>> ELSE Head(ss) \o Flatten(Tail(ss))

(***************************************************************************)
(* The sanitizer applied to bounded inputs: every concatenation of at most *)
(* MaxTokens of these pieces of assistant text.                            *)
(***************************************************************************)
Tokens ==
    { <<"[", "I", "D", ":">>, <<"1", "]">>, <<"[", "I", "D", ":", "1", "]">>,
      <<"1", ".", " ">>, <<"a">>, <<" ">>, <<NL>>, <<"*">>, <<BACKTICK>> }

\* lines of assistant text: a word, a citation marker alone on its line,
\* indented or not, and an empty line
TextLines ==
    { <<"a">>, <<" ", "[", "I", "D", ":", "1", "]">>, <<"[", "I", "D", ":", "1", "]">>, <<>> }

\* '\n'.join(ls)
RECURSIVE JoinLines(_)
JoinLines(ls) ==
    IF ls = <<>> THEN <<>>
    ELSE IF Len(ls) = 1 THEN ls[1]
    ELSE ls[1] \o <<NL>> \o JoinLines(Tail(ls))

CleanInputs ==
    {Flatten(ts) : ts \in SeqsUpTo(Tokens, MaxTokens)}
    \cup {JoinLines(ls) : ls \in SeqsUpTo(TextLines, MaxTextLines)}

InitClean ==
    /\ text \in CleanInputs
    /\ cleaned = NotCleaned
    /\ completion = NoCompletion
    /\ answer = NoAnswer
    /\ StoreIdle

\* cleaned = clean_ai_response(text)
Clean ==
    /\ cleaned.passes = 0
    /\ cleaned' = [passes |-> 1, out |-> clean_ai_response(text),
                   first |-> clean_ai_response(text)]
    /\ UNCHANGED <<text, completion, answer, storeVars, handlerVars>>

\* cleaned = clean_ai_response(cleaned)
CleanAgain ==
    /\ cleaned.passes = 1
    /\ cleaned' = [cleaned EXCEPT !.passes = 2, !.out = clean_ai_response(cleaned.out)]
    /\ UNCHANGED <<text, completion, answer, storeVars, handlerVars>>

NextClean == Clean \/ CleanAgain

SpecClean == InitClean /\ [][NextClean]_vars

(***************************************************************************)
(* The completion call applied to bounded outcomes of the endpoint.        *)
(***************************************************************************)
MessageFrame(content) ==
    [type |-> "dict", event |-> PyStr(<<"m", "e", "s", "s", "a", "g", "e">>),
     data |-> [type |-> "dict", content |-> content]]

ErrorFrame(content) ==
    [type |-> "dict", event |-> PyStr(<<"e", "r", "r", "o", "r">>),
     data |-> [type |-> "dict", content |-> content]]

DataJson(js) == [data |-> TRUE, kind |-> "json", text |-> <<>>, js |-> js]

DataText(t) == [data |-> TRUE, kind |-> "text", text |-> t, js |-> PyNone]

OtherText(t) == [data |-> FALSE, kind |-> "text", text |-> t, js |-> PyNone]

OtherJson(js) == [data |-> FALSE, kind |-> "json", text |-> <<>>, js |-> js]

Lines ==
    { DataJson(MessageFrame(PyStr(<<"H", "e", "l", "l", "o", " ">>))),
      DataJson(MessageFrame(PyStr(<<"w", "o", "r", "l", "d">>))),
      DataJson(MessageFrame(PyStr(<<"[", "I", "D", ":", "1", "]">>))),
      DataJson(MessageFrame(PyStr(<<"I", "'", "m", " ", "y", "o", "u", "r", " ", "A", "s", "s", "i", "s",
            "t", "a", "n", "t">>))),
      DataJson(MessageFrame(PyNone)),
      DataJson(ErrorFrame(PyStr(<<"b", "o", "o", "m">>))),
      DataJson([type |-> "dict", event |-> Absent, data |-> PyNone]),
      DataJson(PyList),
      DataText(<<" ">> \o DONE),
      DataText(<<"o", "o", "p", "s">>),
      OtherText(DONE),
      OtherJson(MessageFrame(PyStr(<<"x">>))) }

Completions ==
    {[kind |-> "response", status |-> 200, lines |-> ls] : ls \in SeqsUpTo(Lines, MaxLines)}
    \cup {[kind |-> "response", status |-> 500, lines |-> <<>>],
          [kind |-> "timeout"], [kind |-> "transport_error"]}

InitConverse ==
    /\ completion \in Completions
    /\ answer = NoAnswer
    /\ text = <<>>
    /\ cleaned = NotCleaned
    /\ StoreIdle

\* answer = await converse_with_knowledge_base(QUESTION, KB_NAME, KB_SUBJECT)
Converse ==
    /\ ~answer.returned
    /\ answer' =
         [returned |-> TRUE,
          buffer |-> IF completion.kind = "response" /\ completion.status = 200
                     THEN ParseStream(completion.lines) ELSE RAISED,
          text |-> converse_with_knowledge_base(QUESTION, KB_NAME, KB_SUBJECT, completion)]
    /\ UNCHANGED <<text, cleaned, completion, storeVars, handlerVars>>

NextConverse == Converse

SpecConverse == InitConverse /\ [][NextConverse]_vars


(***************************************************************************)
(* The knowledge-base store and its handlers.  A handler runs without      *)
(* interruption up to an await; an upload is suspended at `await           *)
(* file.read()` and at `await upload_file_to_context(...)`, and other      *)
(* requests run in between.  Timestamps, descriptions and context ids are  *)
(* left out: no handler reads them.                                        *)
(***************************************************************************)
Init == StoreIdle /\ PureIdle

KbExistsAlways(kb_id) == TRUE

\* kb = user_knowledge_bases.get(kb_id); `if not kb` is false
KbExists(kb_id) == kb_id \in DOMAIN user_knowledge_bases

\* POST /knowledge-bases/create; kb_id stands for str(uuid.uuid4())
create_knowledge_base(kb_id, name, subject) ==
    /\ kb_id \notin DOMAIN user_knowledge_bases
    /\ Cardinality(DOMAIN user_knowledge_bases) < MaxKB
    /\ lists' = Append(lists, <<>>)
    /\ user_knowledge_bases' =
         (kb_id :> [id |-> kb_id, name |-> name, subject |-> subject,
                    file_count |-> 0, files |-> Len(lists) + 1])
         @@ user_knowledge_bases
    /\ response' = JSONResponse("create_knowledge_base", 200, TRUE, kb_id,
                                <<"Knowledge base '", name, "' created successfully!">>)
    /\ request' = Request("create_knowledge_base", kb_id, FALSE, <<>>, PyNone)
    /\ proxy_calls' = <<>>
    /\ UNCHANGED <<user_files, uploads, uploaded, text, cleaned, completion, answer>>

\* the number of file records stored, and of uploads suspended
StoredFiles == Len(Flatten(lists))

Inflight == Cardinality({t \in DOMAIN uploads : uploads[t].pc # "idle"})

\* POST /knowledge-bases/{kb_id}/upload, up to `content = await file.read()`
upload_file_to_kb(t, kb_id, filename) ==
    /\ uploads[t].pc = "idle"
    /\ IF ~KbExists(kb_id)
       THEN /\ response' = JSONResponse("upload_file_to_kb", 404, FALSE, 0,
                                        <<"Knowledge base not found">>)
            /\ request' = Request("upload_file_to_kb", kb_id, FALSE, <<>>, PyNone)
            /\ UNCHANGED uploads
       ELSE /\ StoredFiles + Inflight < MaxUploads
            /\ uploads' = [uploads EXCEPT ![t] =
                             [pc |-> "read", kb_id |-> kb_id,
                              filename |-> filename, size |-> 0]]
            /\ UNCHANGED <<request, response>>
    /\ UNCHANGED <<user_knowledge_bases, user_files, lists, uploaded,
                   proxy_calls, text, cleaned, completion, answer>>

\* file.read() returns size bytes; up to `await upload_file_to_context(...)`
upload_file_to_kb_read(t, size) ==
    /\ uploads[t].pc = "read"
    /\ uploads' = [uploads EXCEPT ![t].pc = "track", ![t].size = size]
    /\ UNCHANGED <<user_knowledge_bases, user_files, lists, uploaded, request,
                   response, proxy_calls, text, cleaned, completion, answer>>

\* file.read() raises: the handler's except clause answers
upload_file_to_kb_read_fails(t) ==
    /\ uploads[t].pc = "read"
    /\ uploads' = [uploads EXCEPT ![t] = IdleUpload]
    /\ response' = JSONResponse("upload_file_to_kb", 500, FALSE, 0,
                                <<"Error uploading file: ", "read failed">>)
    /\ request' = Request("upload_file_to_kb", uploads[t].kb_id, TRUE, <<>>, PyNone)
    /\ UNCHANGED <<user_knowledge_bases, user_files, lists, uploaded,
                   proxy_calls, text, cleaned, completion, answer>>

\* upload_file_to_context: the file is only tracked locally
upload_file_to_context(size, filename) == TRUE

FileCountBeforeAppend(files) == Len(files) - 1

\* kb["file_count"] = len(user_files[kb_id])
FileCount(files) == Len(files)

KbFilesKept(kb, files) == kb.files

\* kb["files"] = user_files[kb_id]
KbFiles(kb, files) == files

NeedsFileListAlways(kb_id) == TRUE

\* if kb_id not in user_files
NeedsFileList(kb_id) == kb_id \notin DOMAIN user_files

\* the file record; id stands for str(uuid.uuid4())
FileRecord(id, filename, size) ==
    [id |-> id, name |-> filename, size |-> size, status |-> "tracked_locally"]

\* the rest of the handler, from the return of upload_file_to_context
upload_file_to_kb_store(t) ==
    LET u == uploads[t]
        kb_id == u.kb_id
        fresh == NeedsFileList(kb_id)
        \* if kb_id not in user_files: user_files[kb_id] = []
        lists1 == IF fresh THEN Append(lists, <<>>) ELSE lists
        files == IF fresh THEN Len(lists) + 1 ELSE user_files[kb_id]
        \* user_files[kb_id].append({...})
        lists2 == [lists1 EXCEPT ![files] =
                     Append(@, FileRecord(StoredFiles + 1, u.filename, u.size))]
    IN
    /\ u.pc = "track"
    /\ uploads' = [uploads EXCEPT ![t] = IdleUpload]
    /\ request' = Request("upload_file_to_kb", kb_id, TRUE, <<>>, PyNone)
    /\ IF upload_file_to_context(u.size, u.filename)
       THEN /\ lists' = lists2
            /\ user_files' = (kb_id :> files) @@ user_files
            /\ user_knowledge_bases' =
                 [user_knowledge_bases EXCEPT
                    ![kb_id].file_count = FileCount(lists2[files]),
                    ![kb_id].files = KbFiles(user_knowledge_bases[kb_id], files)]
            /\ uploaded' = [uploaded EXCEPT ![kb_id] = Append(@, u.filename)]
            /\ response' = JSONResponse("upload_file_to_kb", 200, TRUE, 0,
                                        <<"File ", u.filename, " uploaded successfully!">>)
       ELSE /\ response' = JSONResponse("upload_file_to_kb", 500, FALSE, 0,
                                        <<"Failed to process file">>)
            /\ UNCHANGED <<user_knowledge_bases, user_files, lists, uploaded>>
    /\ UNCHANGED <<proxy_calls, text, cleaned, completion, answer>>

Next ==
    \/ \E kb_id \in KbIds : create_knowledge_base(kb_id, KB_NAME, KB_SUBJECT)
    \/ \E t \in 1..MaxInflight, kb_id \in KbIds, filename \in FileNames :
          upload_file_to_kb(t, kb_id, filename)
    \/ \E t \in 1..MaxInflight, size \in Sizes : upload_file_to_kb_read(t, size)
    \/ \E t \in 1..MaxInflight : upload_file_to_kb_read_fails(t)
    \/ \E t \in 1..MaxInflight : upload_file_to_kb_store(t)

Spec == Init /\ [][Next]_vars

(***************************************************************************)
(* Two uploads to one knowledge base that are in flight at the same time:  *)
(* the knowledge base has been created, both requests have passed the      *)
(* lookup and are suspended at `await file.read()`.                        *)
(***************************************************************************)
InitRace ==
    /\ user_knowledge_bases =
         (1 :> [id |-> 1, name |-> KB_NAME, subject |-> KB_SUBJECT,
                file_count |-> 0, files |-> 1])
    /\ user_files = <<>>
    /\ lists = << <<>> >>
    /\ \E f \in FileNames, g \in FileNames :
          uploads = [t \in 1..MaxInflight |->
                       IF t = 1 THEN [pc |-> "read", kb_id |-> 1, filename |-> f, size |-> 0]
                       ELSE IF t = 2
                            THEN [pc |-> "read", kb_id |-> 1, filename |-> g, size |-> 0]
                            ELSE IdleUpload]
    /\ uploaded = [id \in KbIds |-> <<>>]
    /\ request = Request("create_knowledge_base", 1, FALSE, <<>>, PyNone)
    /\ response = JSONResponse("create_knowledge_base", 200, TRUE, 1,
                               <<"Knowledge base '", KB_NAME, "' created successfully!">>)
    /\ proxy_calls = <<>>
    /\ PureIdle

NextRace ==
    \/ \E t \in 1..MaxInflight, size \in Sizes : upload_file_to_kb_read(t, size)
    \/ \E t \in 1..MaxInflight : upload_file_to_kb_read_fails(t)
    \/ \E t \in 1..MaxInflight : upload_file_to_kb_store(t)

SpecRace == InitRace /\ [][NextRace]_vars



(***************************************************************************)
(* The chat query handlers.  Neither writes a registry, so each is one     *)
(* step, taken with an outcome of every external call it may make.         *)
(***************************************************************************)
Messages == {<<>>, <<" ">>, <<NL>>, <<"\t", " ", NL>>, QUESTION, <<" ", "t", "e", "a", "?">>}

\* the session_id form field: FastAPI turns an empty field into None
SessionIds == {PyNone, PyStr(<<"s", "1">>)}

Topics == {"natural_health"}

SessionBody(session_id, others) ==
    [type |-> "dict", session_id |-> session_id, others |-> others]

\* the sessions endpoint answers with the session, as it should
SessionCreated ==
    [kind |-> "response", status |-> 200,
     body |-> SessionBody(PyStr(<<"r", "4", "2">>), TRUE)]

SessionOutcomes ==
    {SessionCreated}
    \cup {[kind |-> "response", status |-> 200, body |-> b] :
            b \in {SessionBody(Absent, TRUE), SessionBody(Absent, FALSE),
                   SessionBody(PyNone, FALSE), SessionBody(PyStr(<<>>), FALSE),
                   PyList, [type |-> "invalid"]}}
    \cup {[kind |-> "response", status |-> 201,
           body |-> SessionBody(PyStr(<<"r", "4", "2">>), FALSE)],
          [kind |-> "response", status |-> 201, body |-> SessionBody(Absent, FALSE)],
          [kind |-> "response", status |-> 500, body |-> [type |-> "invalid"]],
          [kind |-> "timeout"], [kind |-> "transport_error"]}

\* uuid.uuid4().hex[:8]
Hexes == {<<"0", "a", "1", "b", "2", "c", "3", "d">>}

\* the completions endpoint streams an answer, as it should
CompletionStreamed ==
    [kind |-> "response", status |-> 200,
     lines |-> <<DataJson(MessageFrame(PyStr(<<"H", "e", "l", "l", "o", " ">>))),
                 DataJson(MessageFrame(PyStr(<<"w", "o", "r", "l", "d">>))),
                 DataText(DONE)>>]

ChatCompletions ==
    {CompletionStreamed}
    \cup {[kind |-> "response", status |-> 200, lines |-> ls] :
            ls \in {<<>>,
                    <<DataJson(MessageFrame(PyStr(<<"a", NL, NL, "b", NL, "c">>)))>>,
                    <<DataText(<<"o", "o", "p", "s">>)>>,
                    <<DataJson(PyList)>>}}
    \cup {[kind |-> "response", status |-> 500, lines |-> <<>>],
          [kind |-> "timeout"], [kind |-> "transport_error"]}

\* the outcomes of the two external calls of one chat request: every outcome
\* of either endpoint, the other endpoint then answering as it should
ExternalOutcomes ==
    {o \in SessionOutcomes \X ChatCompletions :
        o[1] = SessionCreated \/ o[2] = CompletionStreamed}

MessageIsEmpty(message) == message = <<>>

\* if not message.strip()
MessageIsBlank(message) == Strip(message) = <<>>

\* a call of create_chat_session, with the session id of the dict it returned;
\* remote: the sessions endpoint answered 200 or 201
CreateSessionCall(session_outcome, session_data) ==
    [op |-> "create_chat_session",
     session_id |-> Get(session_data.session_id, PyNone),
     remote |-> session_outcome.kind = "response" /\ session_outcome.status \in {200, 201}]

ConverseCall(session_id) ==
    [op |-> "converse_with_knowledge_base", session_id |-> session_id]

\* the session id after `if not session_id: ...`, and the call that made it
ResolveSession(session_id, session_outcome, hex) ==
    IF NeedsSession(session_id)
    THEN [calls |-> <<CreateSessionCall(session_outcome,
                                        create_chat_session(session_outcome, hex))>>,
          session_id |-> ExtractSessionId(session_id,
                                          create_chat_session(session_outcome, hex))]
    ELSE [calls |-> <<>>, session_id |-> session_id]

\* ai_response.replace('\n\n', '</p><p>').replace('\n', '<br>')
FormatResponse(ai_response) ==
    Replace(Replace(ai_response, <<NL, NL>>, <<"<", "/", "p", ">", "<", "p", ">">>),
            <<NL>>, <<"<", "b", "r", ">">>)

ASSISTANT == <<" ", "A", "s", "s", "i", "s", "t", "a", "n", "t">>

\* POST /knowledge-bases/{kb_id}/chat
kb_chat_query(kb_id, message, session_id, session_outcome, hex, completion_outcome) ==
    /\ request' = Request("kb_chat_query", kb_id,
                          kb_id \in DOMAIN user_knowledge_bases, message, session_id)
    /\ IF ~KbExists(kb_id)
       THEN /\ response' = HTMLFragment("kb_chat_query",
                                        ErrorFragment("Knowledge base not found"))
            /\ proxy_calls' = <<>>
       ELSE IF MessageIsBlank(message)
       THEN /\ response' = HTMLFragment("kb_chat_query",
                                        ErrorFragment("Please enter a message"))
            /\ proxy_calls' = <<>>
       ELSE LET kb == user_knowledge_bases[kb_id]
                session == ResolveSession(session_id, session_outcome, hex)
                ai_response == converse_with_knowledge_base(message, kb.name, kb.subject,
                                                            completion_outcome)
            IN  /\ proxy_calls' = Append(session.calls, ConverseCall(session.session_id))
                /\ response' = HTMLFragment("kb_chat_query",
                                  ChatFragment(message, kb.name \o ASSISTANT,
                                               FormatResponse(ai_response)))
    /\ UNCHANGED <<storeVars, text, cleaned, completion, answer>>

\* POST /chat/{topic}/query: main.py defines no converse_with_chat, so the
\* call on line 527 raises NameError
chat_query(topic, message, session_id, session_outcome, hex) ==
    /\ request' = Request("chat_query", 0, FALSE, message, session_id)
    /\ IF MessageIsBlank(message)
       THEN /\ response' = HTMLFragment("chat_query",
                                        ErrorFragment("Please enter a message"))
            /\ proxy_calls' = <<>>
       ELSE /\ proxy_calls' = ResolveSession(session_id, session_outcome, hex).calls
            /\ response' = Unhandled("chat_query",
                              <<"NameError", "name 'converse_with_chat' is not defined">>)
    /\ UNCHANGED <<storeVars, text, cleaned, completion, answer>>

\* the chat handlers treat all identifiers alike: they are given out in order
NextChat ==
    \/ \E kb_id \in KbIds :
          /\ \A other \in KbIds : other < kb_id => other \in DOMAIN user_knowledge_bases
          /\ create_knowledge_base(kb_id, KB_NAME, KB_SUBJECT)
    \/ \E kb_id \in KbIds, message \in Messages, session_id \in SessionIds,
          o \in ExternalOutcomes, hex \in Hexes :
          kb_chat_query(kb_id, message, session_id, o[1], hex, o[2])
    \/ \E topic \in Topics, message \in Messages, session_id \in SessionIds,
          session_outcome \in SessionOutcomes, hex \in Hexes :
          chat_query(topic, message, session_id, session_outcome, hex)

SpecChat == Init /\ [][NextChat]_vars

(***************************************************************************)
(* Properties.                                                             *)
(***************************************************************************)
\* a message of whitespace only (the empty message among them)
Blank(message) == \A i \in 1..Len(message) : message[i] \in WS

\* the last request was a chat query that passed the handler's checks
ChatAnswered ==
    /\ request.handler \in {"kb_chat_query", "chat_query"}
    /\ request.handler = "kb_chat_query" => request.known
    /\ ~Blank(request.message)

\* C1: an upload to a knowledge-base id that the registry does not hold
\* answers not found (404, success false) and changes neither registry, nor
\* any file list or file count.
C1_UploadToUnknownKb ==
    [][\A t \in 1..MaxInflight, kb_id \in KbIds, filename \in FileNames :
          (kb_id \notin DOMAIN user_knowledge_bases /\ upload_file_to_kb(t, kb_id, filename))
          => /\ response'.handler = "upload_file_to_kb"
             /\ response'.kind = "json"
             /\ response'.status = 404
             /\ ~response'.success
             /\ UNCHANGED <<user_knowledge_bases, user_files, lists, uploads>>]_vars

C1_Witness ==
    /\ response.handler = "upload_file_to_kb"
    /\ response.status = 404
    /\ request.kb_id \notin DOMAIN user_knowledge_bases
    /\ \E id \in DOMAIN user_knowledge_bases : user_knowledge_bases[id].file_count >= 1

\* C2: every knowledge base's file_count is the length of its file list and
\* the number of successful uploads made to it; the list holds one record
\* per successful upload, in upload order, each tracked locally under the
\* uploaded file's name.
C2_FileCountMatchesUploads ==
    \A id \in DOMAIN user_knowledge_bases :
        LET kb == user_knowledge_bases[id]
            files == lists[kb.files]
        IN  /\ kb.file_count = Len(files)
            /\ Len(files) = Len(uploaded[id])
            /\ \A i \in 1..Len(files) :
                  /\ files[i].name = uploaded[id][i]
                  /\ files[i].status = "tracked_locally"

C2_Witness ==
    \E id \in DOMAIN user_knowledge_bases :
        /\ user_knowledge_bases[id].file_count = 2
        /\ uploaded[id] = <<"herbs.pdf", "notes.txt">>

\* C3: a blank message sent to the topic chat handler, or to the
\* knowledge-base chat handler of an existing knowledge base, is answered
\* with the inline error fragment and no call reaches the proxy client,
\* with or without a session id.
C3_BlankMessageRejected ==
    (/\ request.handler \in {"kb_chat_query", "chat_query"}
     /\ request.handler = "kb_chat_query" => request.known
     /\ Blank(request.message))
    => /\ response.handler = request.handler
       /\ response.kind = "html"
       /\ response.fragment = ErrorFragment("Please enter a message")
       /\ proxy_calls = <<>>

C3_Witness ==
    /\ request.handler = "kb_chat_query"
    /\ request.known
    /\ request.message = <<"\t", " ", NL>>
    /\ request.session_id = PyNone
    /\ response.fragment = ErrorFragment("Please enter a message")
    /\ proxy_calls = <<>>

\* session-<8 hex digits>
IsFallbackId(v) ==
    /\ v.type = "str"
    /\ Len(v.val) = Len(SESSION_PREFIX) + 8
    /\ LitAt(v.val, 1, SESSION_PREFIX)
    /\ \A i \in (Len(SESSION_PREFIX) + 1)..Len(v.val) : v.val[i] \in HexDigits

\* C4: whatever the sessions endpoint does, the session id a handler takes
\* from create_chat_session's result is a non-empty identifier, a local
\* session-<8 hex digits> one when the endpoint did not answer 200 or 201,
\* and it is the id the handler goes on with.
C4_SessionIdNeverEmpty ==
    /\ \A i \in 1..Len(proxy_calls) :
          proxy_calls[i].op = "create_chat_session"
          => /\ Truthy(proxy_calls[i].session_id)
             /\ ~proxy_calls[i].remote => IsFallbackId(proxy_calls[i].session_id)
    /\ \A i \in 1..Len(proxy_calls) :
          proxy_calls[i].op = "converse_with_knowledge_base"
          => Truthy(proxy_calls[i].session_id)

\* C5: whatever the completions endpoint does, converse_with_knowledge_base
\* returns, and returns a text that is not blank.
C5_AnswerNeverBlank ==
    answer.returned => \E i \in 1..Len(answer.text) : answer.text[i] \notin WS

C5_Witness ==
    /\ answer.returned
    /\ completion.kind = "response"
    /\ completion.status = 200
    /\ completion.lines = <<DataJson(MessageFrame(PyStr(<<"[", "I", "D", ":", "1", "]">>)))>>
    /\ answer.buffer = [raised |-> FALSE, answer |-> <<"[", "I", "D", ":", "1", "]">>]
    /\ answer.text = EnhancedResponse(QUESTION, KB_NAME, KB_SUBJECT)

\* C6: no handler ends in an unhandled exception, and the topic chat
\* handler answers a message that is not blank with the user-message and
\* assistant-message fragment, whatever the external service does.
C6_HandlersAlwaysRender ==
    /\ response.kind # "exception"
    /\ (request.handler = "chat_query" /\ ~Blank(request.message))
       => /\ response.kind = "html"
          /\ response.fragment.class = "chat"
          /\ response.fragment.user = request.message

\* the data line that carries the [DONE] sentinel
IsDoneLine(line) == line.data /\ line.kind = "text" /\ Strip(line.text) = DONE

\* the lines before the first [DONE] sentinel, all of them if there is none
BeforeSentinel(lines) ==
    LET done == {i \in 1..Len(lines) : IsDoneLine(lines[i])}
    IN  IF done = {} THEN lines ELSE SubSeq(lines, 1, Min(done) - 1)

IsEvent(js, name) == js.type = "dict" /\ js.event = PyStr(name)

\* the content of a frame with event type "message", nothing for any other line
MessageContent(line) ==
    IF /\ line.data
       /\ line.kind = "json"
       /\ IsEvent(line.js, <<"m", "e", "s", "s", "a", "g", "e">>)
       /\ line.js.data.type = "dict"
       /\ line.js.data.content.type = "str"
    THEN line.js.data.content.val
    ELSE <<>>

\* a data line that is no JSON gives its text and a line break
MalformedText(line) ==
    IF line.data /\ line.kind = "text" THEN Strip(line.text) \o <<NL>> ELSE <<>>

\* a data line whose JSON is an object, the data of a message or error frame
\* an object or missing, the content of a message frame a string or missing
ExpectedShape(line) ==
    (line.data /\ line.kind = "json")
    => /\ line.js.type = "dict"
       /\ (\/ IsEvent(line.js, <<"m", "e", "s", "s", "a", "g", "e">>)
           \/ IsEvent(line.js, <<"e", "r", "r", "o", "r">>))
          => line.js.data.type \in {"dict", "absent"}
       /\ (/\ IsEvent(line.js, <<"m", "e", "s", "s", "a", "g", "e">>)
           /\ line.js.data.type = "dict")
          => line.js.data.content.type \in {"str", "absent"}

Ok200 == answer.returned /\ completion.kind = "response" /\ completion.status = 200

C8_SessionResolution ==
    ChatAnswered =>
        IF Truthy(request.session_id)
        THEN proxy_calls = <<ConverseCall(request.session_id)>>
        ELSE /\ Len(proxy_calls) = 2
             /\ proxy_calls[1].op = "create_chat_session"
             /\ proxy_calls[2] = ConverseCall(proxy_calls[1].session_id)

\* a substring [ID:<digits>]
HasMarker(s) ==
    \E i \in 1..Len(s), j \in 1..Len(s) :
        /\ LitAt(s, i, <<"[", "I", "D", ":">>)
        /\ j > i + Len(<<"[", "I", "D", ":">>)
        /\ s[j] = "]"
        /\ \A k \in (i + Len(<<"[", "I", "D", ":">>))..(j - 1) : s[k] \in Digits

\* C9: the output of clean_ai_response holds no substring [ID:<digits>].
C9_NoMarkerInOutput == cleaned.passes >= 1 => ~HasMarker(cleaned.first)

\* C10: clean_ai_response(clean_ai_response(x)) = clean_ai_response(x).
C10_Idempotent == cleaned.passes = 2 => cleaned.out = cleaned.first

\* the positions that bound the lines of s: its line breaks and its two ends
LineBounds(s) == {0, Len(s) + 1} \cup {i \in 1..Len(s) : s[i] = NL}

\* two lines in a row that hold nothing but whitespace
HasDoubleBlankLine(s) ==
    \E b1 \in LineBounds(s), b2 \in LineBounds(s), b3 \in LineBounds(s) :
        /\ b1 < b2
        /\ b2 < b3
        /\ \A k \in (b1 + 1)..(b3 - 1) : s[k] \in WS

\* every paragraph of s (a piece between two empty lines) holds something
\* and neither starts nor ends with whitespace
ParagraphsTrimmed(s) ==
    s # <<>> =>
        /\ s[1] \notin WS
        /\ s[Len(s)] \notin WS
        /\ \A i \in 1..(Len(s) - 1) :
              LitAt(s, i, <<NL, NL>>)
              => /\ i > 1 /\ s[i - 1] \notin WS
                 /\ i + 2 <= Len(s) /\ s[i + 2] \notin WS

\* C11: the output of clean_ai_response has no two blank lines in a row,
\* whitespace-only lines counting as blank, and each of its paragraphs is
\* non-empty and free of leading and trailing whitespace.
C11_NoDoubleBlankLines ==
    cleaned.passes >= 1
    => /\ ~HasDoubleBlankLine(cleaned.first)
       /\ ParagraphsTrimmed(cleaned.first)

\* two uploads to knowledge base kb_id, of files f and g, are suspended at an
\* await at the same time, n records being stored
TwoUploads(t, u, kb_id, f, g, n) ==
    /\ t # u
    /\ uploads[t].pc \in {"read", "track"}
    /\ uploads[u].pc \in {"read", "track"}
    /\ uploads[t].kb_id = kb_id /\ uploads[t].filename = f
    /\ uploads[u].kb_id = kb_id /\ uploads[u].filename = g
    /\ Len(lists[user_knowledge_bases[kb_id].files]) = n

\* both uploads are over, and the file list and the file count hold both
BothStored(t, u, kb_id, f, g, n) ==
    /\ uploads[t].pc = "idle"
    /\ uploads[u].pc = "idle"
    /\ kb_id \in DOMAIN user_files
    /\ user_knowledge_bases[kb_id].files = user_files[kb_id]
    /\ user_knowledge_bases[kb_id].file_count = n + 2
    /\ LET files == lists[user_files[kb_id]]
       IN  /\ Len(files) = n + 2
           /\ <<files[n + 1].name, files[n + 2].name>> \in {<<f, g>>, <<g, f>>}

\* both uploads are over, and the file list or the file count misses one
OneLost(t, u, kb_id, f, g, n) ==
    /\ uploads[t].pc = "idle"
    /\ uploads[u].pc = "idle"
    /\ ~BothStored(t, u, kb_id, f, g, n)

\* one step of either upload that goes on to its success, or none
UploadStep(t, u) ==
    \/ \E size \in Sizes : upload_file_to_kb_read(t, size) \/ upload_file_to_kb_read(u, size)
    \/ upload_file_to_kb_store(t)
    \/ upload_file_to_kb_store(u)
    \/ UNCHANGED vars

\* some interleaving of the steps of the two uploads ends with one lost
CanLoseOne(t, u, kb_id, f, g, n) ==
    ENABLED (UploadStep(t, u) /\ (ENABLED (UploadStep(t, u) /\
        (ENABLED (UploadStep(t, u) /\ (ENABLED (UploadStep(t, u) /\
            OneLost(t, u, kb_id, f, g, n)'))'))'))')

\* some interleaving of the steps of the two uploads ends with both stored
CanStoreBoth(t, u, kb_id, f, g, n) ==
    ENABLED (UploadStep(t, u) /\ (ENABLED (UploadStep(t, u) /\
        (ENABLED (UploadStep(t, u) /\ (ENABLED (UploadStep(t, u) /\
            BothStored(t, u, kb_id, f, g, n)'))'))'))')

\* C12 as stated: when two uploads to the same knowledge base are suspended
\* at the same time, some interleaving of their steps ends in a state whose
\* file list or file count does not reflect both.
C12_SimultaneousUploadsRace ==
    \A t \in 1..MaxInflight, u \in 1..MaxInflight, kb_id \in KbIds,
       f \in FileNames, g \in FileNames, n \in 0..MaxUploads :
        TwoUploads(t, u, kb_id, f, g, n) => CanLoseOne(t, u, kb_id, f, g, n)

\* C12 as amended: when two uploads to the same knowledge base are suspended
\* at the same time, no interleaving of their steps loses one: both can
\* finish, and whenever both have finished the file list holds both records
\* on top of the earlier ones and the file count has risen by two.
C12_SimultaneousUploadsBothStored ==
    \A t \in 1..MaxInflight, u \in 1..MaxInflight, kb_id \in KbIds,
       f \in FileNames, g \in FileNames, n \in 0..MaxUploads :
        TwoUploads(t, u, kb_id, f, g, n)
        => /\ ~CanLoseOne(t, u, kb_id, f, g, n)
           /\ CanStoreBoth(t, u, kb_id, f, g, n)

C12_Witness ==
    \E kb_id \in DOMAIN user_knowledge_bases :
        /\ uploads[1] = [pc |-> "track", kb_id |-> kb_id, filename |-> "notes.txt", size |-> 12]
        /\ uploads[2] = [pc |-> "track", kb_id |-> kb_id, filename |-> "herbs.pdf", size |-> 0]
        /\ user_knowledge_bases[kb_id].file_count = 0
        /\ CanStoreBoth(1, 2, kb_id, "notes.txt", "herbs.pdf", 0)

\* C13: every knowledge-base id that is a key of the file registry is a key
\* of the knowledge-base registry, and that knowledge base's file list is
\* the list the file registry holds for the id.
C13_FileRegistryPairsWithKb ==
    \A id \in DOMAIN user_files :
        /\ id \in DOMAIN user_knowledge_bases
        /\ user_knowledge_bases[id].files = user_files[id]
        /\ lists[user_knowledge_bases[id].files] = lists[user_files[id]]

C13_Witness ==
    \E id \in DOMAIN user_files :
        /\ id \in DOMAIN user_knowledge_bases
        /\ Len(lists[user_files[id]]) = 1
        /\ user_knowledge_bases[id].files = user_files[id]
        /\ \E t \in 1..MaxInflight : uploads[t].pc = "track" /\ uploads[t].kb_id = id

\* a data line that fails JSON parsing and is not the [DONE] sentinel
IsMalformed(line) == line.data /\ line.kind = "text" /\ ~IsDoneLine(line)

\* the stream without its malformed data lines
WithoutMalformed(lines) == SelectSeq(lines, LAMBDA line : ~IsMalformed(line))

\* the stream with a message frame in place of each malformed data line, its
\* content the trimmed text of the line and a line break
MalformedAsMessages(lines) ==
    [i \in 1..Len(lines) |->
        IF IsMalformed(lines[i])
        THEN DataJson(MessageFrame(PyStr(Strip(lines[i].text) \o <<NL>>)))
        ELSE lines[i]]

HasMalformed(lines) == \E i \in 1..Len(lines) : IsMalformed(lines[i])

\* C14 as stated: a data line that fails JSON parsing is skipped; the answer
\* buffer of a 200 response is what it would be without such lines.
C14_MalformedLineSkipped ==
    Ok200 => answer.buffer = ParseStream(WithoutMalformed(completion.lines))

\* C14 as amended: a data line that fails JSON parsing is not skipped; it
\* gives the answer buffer of a 200 response its trimmed text and a line
\* break, as a message frame of that content would, and accumulation goes on
\* with the following lines.
C14_MalformedLineAppended ==
    Ok200 => answer.buffer = ParseStream(MalformedAsMessages(completion.lines))

C14_Witness ==
    /\ Ok200
    /\ completion.lines =
         <<DataJson(MessageFrame(PyStr(<<"H", "e", "l", "l", "o", " ">>))),
           DataText(<<"o", "o", "p", "s">>),
           DataJson(MessageFrame(PyStr(<<"w", "o", "r", "l", "d">>)))>>
    /\ HasMalformed(completion.lines)
    /\ answer.buffer =
         [raised |-> FALSE,
          answer |-> <<"H", "e", "l", "l", "o", " ", "o", "o", "p", "s", NL,
                       "w", "o", "r", "l", "d">>]

=============================================================================
